---- MODULE Spec2Model ----
(***************************************************************************)
(* Caching and rate limiting of BLT-Leaf (src/src/cache.py).               *)
(*                                                                         *)
(* Time is the integer millisecond reading of Date.now(); the code's       *)
(* current_time = Date.now() / 1000 is kept scaled by MsPerSecond, so a    *)
(* comparison "current_time - timestamp < TTL" reads                       *)
(* "t - timestamp < TTL * MsPerSecond" here, in exact arithmetic.          *)
(***************************************************************************)
EXTENDS Integers, Sequences, FiniteSets, TLC

VARIABLES
    now,                      \* reading of the wall clock, in milliseconds
    _readiness_rate_limit,    \* cache.py:18  ip -> [count, window_start]
    _readiness_cache,         \* cache.py:28  pr_id -> [data, timestamp]
    _timeline_cache,          \* cache.py:36  cache_key -> [data, timestamp]
    _rate_limit_cache,        \* cache.py:6   the single quota slot
    readiness_db,             \* durable store, readiness records
    timeline_db,              \* durable store, timeline records
    pc,                       \* task -> where the task is suspended
    frame,                    \* task -> the locals of its suspended call
    ret,                      \* what the last step did and returned
    calls,                    \* history: ip -> admit calls in its current window
    retryAt,                  \* history: ip -> earliest instant a denial asked to wait
                              \*   for, until a call is made at or after it
    pendingRetryAt,           \* history: the same, forgotten at every allowed call
    family,                   \* which cache family the requests of a cache run address
    request,                  \* which pull request its timeline requests are about
    written,                  \* history: key -> the last value set and never invalidated
    lastUpdate,               \* history: the arguments of the last quota update, if any
    admitted                  \* history: ip -> instant -> the calls allowed at that
                              \*   instant, for the instants of the last rate window

vars == <<now, _readiness_rate_limit, _readiness_cache, _timeline_cache,
          _rate_limit_cache, readiness_db, timeline_db, pc, frame, ret,
          calls, retryAt, pendingRetryAt, family, request, written, lastUpdate,
          admitted>>

\* the history variables of the limiter and of the cache
limiterHistory == <<calls, retryAt, pendingRetryAt>>
cacheHistory == <<family, request, written>>
quotaHistory == <<lastUpdate>>
windowHistory == <<admitted>>

(***************************************************************************)
(* Program constants.                                                      *)
(***************************************************************************)
MsPerSecond == 1000
_READINESS_RATE_LIMIT == 30
_READINESS_RATE_WINDOW == 60
_READINESS_CACHE_TTL == 600
_TIMELINE_CACHE_TTL == 1800

(***************************************************************************)
(* Bounds of the model.                                                    *)
(***************************************************************************)
\* number of whole rate windows after the first one that the clock spans
MaxWindows == 1

None == "None"

\* the locals of a task that is in no call
NoFrame == [idle |-> TRUE]

Tasks == {"t1", "t2"}
IPs == {"ip1", "ip2"}

\* the clock starts at a positive reading, as Date.now() does
ClockStart == MsPerSecond

\* clock readings of the limiter runs: every whole window length after the
\* start, and half a second after each of those
LimiterInstants ==
    { ClockStart + (w * _READINESS_RATE_WINDOW * MsPerSecond) + d :
        w \in 0..MaxWindows, d \in {0, 500} }

Min(a, b) == IF a < b THEN a ELSE b

(***************************************************************************)
(* Python helpers.                                                         *)
(***************************************************************************)
\* int(x) of a non-negative float x = n / MsPerSecond: truncation
IntOfSeconds(n) == n \div MsPerSecond

\* d[k] = v on a dict
DictSet(d, k, v) == [x \in (DOMAIN d) \cup {k} |-> IF x = k THEN v ELSE d[x]]

\* del d[k]
DictDel(d, k) == [x \in (DOMAIN d) \ {k} |-> d[x]]

EmptyDict == [x \in {} |-> None]

(***************************************************************************)
(* check_rate_limit (cache.py:44-88)                                       *)
(***************************************************************************)
\* cache.py:60-63 and 72-75: a fresh window
NewWindow(current_time) == [count |-> 1, window_start |-> current_time]

\* cache.py:68
WindowElapsed(rate_data, current_time) == current_time - rate_data.window_start

\* mutant: the window is over only after more than its length
WindowExpired_Strict(window_elapsed) ==
    window_elapsed > _READINESS_RATE_WINDOW * MsPerSecond

\* cache.py:71
WindowExpired(window_elapsed) ==
    window_elapsed >= _READINESS_RATE_WINDOW * MsPerSecond

\* mutant: one request too many passes the limit check
WithinLimit_Inclusive(rate_data) == rate_data.count <= _READINESS_RATE_LIMIT

\* cache.py:80
WithinLimit(rate_data) == rate_data.count < _READINESS_RATE_LIMIT

\* mutant: the increment is lost
Incremented_Lost(rate_data) == rate_data

\* cache.py:81
Incremented(rate_data) == [rate_data EXCEPT !.count = @ + 1]

\* mutant: the delay is truncated and not rounded up
RetryAfter_Truncated(window_elapsed) ==
    IntOfSeconds((_READINESS_RATE_WINDOW * MsPerSecond) - window_elapsed)

\* cache.py:86
RetryAfter(window_elapsed) ==
    IntOfSeconds((_READINESS_RATE_WINDOW * MsPerSecond) - window_elapsed) + 1

\* mutant: one window shared by every ip
StoreWindow_Shared(limits, ip_address, rate_data) ==
    [x \in (DOMAIN limits) \cup {ip_address} |-> rate_data]

\* cache.py:60, 72, 81: the write of one ip's entry
StoreWindow(limits, ip_address, rate_data) == DictSet(limits, ip_address, rate_data)

\* the whole function: the returned tuple and the map it leaves
\* mutant: a denied call restarts the window of its ip
Denied_Extended(limits, ip_address, current_time) ==
    StoreWindow(limits, ip_address,
                [limits[ip_address] EXCEPT !.window_start = current_time])

\* cache.py:84-88: the denial returns without writing to the map
Denied(limits, ip_address, current_time) == limits

RateLimitOutcome(limits, ip_address, current_time) ==
    IF ip_address \notin DOMAIN limits
    THEN [allowed |-> TRUE, retry_after |-> 0,
          limits |-> StoreWindow(limits, ip_address, NewWindow(current_time))]
    ELSE LET rate_data == limits[ip_address]
             window_elapsed == WindowElapsed(rate_data, current_time)
         IN  IF WindowExpired(window_elapsed)
             THEN [allowed |-> TRUE, retry_after |-> 0,
                   limits |-> StoreWindow(limits, ip_address, NewWindow(current_time))]
             ELSE IF WithinLimit(rate_data)
             THEN [allowed |-> TRUE, retry_after |-> 0,
                   limits |-> StoreWindow(limits, ip_address, Incremented(rate_data))]
             ELSE [allowed |-> FALSE, retry_after |-> RetryAfter(window_elapsed),
                   limits |-> Denied(limits, ip_address, current_time)]

\* history: whether the call opens a window of its own (no entry, or the
\* entry's window is over), stated without the code's helpers
OpensWindow(ip) ==
    \/ ip \notin DOMAIN _readiness_rate_limit
    \/ now - _readiness_rate_limit[ip].window_start
          >= _READINESS_RATE_WINDOW * MsPerSecond

\* history: a denial asked to wait until `deadline`, and that instant has come
Due(deadline) == deadline # 0 /\ now >= deadline

\* history: the earlier of two deadlines, 0 standing for none
Earliest(deadline, other) == IF deadline = 0 THEN other ELSE Min(deadline, other)

check_rate_limit(ip_address) ==
    LET out == RateLimitOutcome(_readiness_rate_limit, ip_address, now)
    IN  /\ _readiness_rate_limit' = out.limits
        /\ ret' = [op |-> "admit", ip |-> ip_address, allowed |-> out.allowed,
                   retry_after |-> out.retry_after,
                   overdue |-> Due(retryAt[ip_address]),
                   retried |-> Due(pendingRetryAt[ip_address])]
        /\ calls' = [calls EXCEPT ![ip_address] =
                        IF OpensWindow(ip_address) THEN 1
                        ELSE Min(@ + 1, _READINESS_RATE_LIMIT + 1)]
        /\ retryAt' = [retryAt EXCEPT ![ip_address] =
                        LET kept == IF Due(@) THEN 0 ELSE @
                        IN  IF out.allowed THEN kept
                            ELSE Earliest(kept, now + (out.retry_after * MsPerSecond))]
        /\ pendingRetryAt' = [pendingRetryAt EXCEPT ![ip_address] =
                        IF out.allowed THEN 0
                        ELSE Earliest(@, now + (out.retry_after * MsPerSecond))]
        /\ UNCHANGED <<now, _readiness_cache, _timeline_cache, _rate_limit_cache,
                       readiness_db, timeline_db, pc, frame, cacheHistory,
                       quotaHistory>>

\* history: the sum of f over the set S of its arguments
RECURSIVE SumOver(_, _)
SumOver(f, S) ==
    IF S = {} THEN 0
    ELSE LET x == CHOOSE y \in S : TRUE
         IN  f[x] + SumOver(f, S \ {x})

\* history: the log of one ip after a call at `at`: the instants less than a
\* window's length ago, with the call added if it was allowed
Logged(log, at, allowed) ==
    LET recent == {t \in DOMAIN log : at - t < _READINESS_RATE_WINDOW * MsPerSecond}
        kept == [t \in recent |-> log[t]]
    IN  IF allowed
        THEN DictSet(kept, at, (IF at \in recent THEN log[at] ELSE 0) + 1)
        ELSE kept

\* check_rate_limit with the allowed calls logged. The function is a plain
\* def with no await in it (cache.py:44-88): whichever task calls it, the
\* call is one step, and the interleavings of any number of tasks are the
\* sequences of such steps.
admit(ip_address) ==
    /\ check_rate_limit(ip_address)
    /\ admitted' = [admitted EXCEPT ![ip_address] = Logged(@, now, ret'.allowed)]

(***************************************************************************)
(* Python values handed to the quota cache: None, an int, a float (in      *)
(* thousandths), float('inf'), a str (its characters) or a list.           *)
(***************************************************************************)
PyNone == [t |-> "none"]
PyInt(n) == [t |-> "int", i |-> n]
PyFloat(thousandths) == [t |-> "float", milli |-> thousandths]
PyInf == [t |-> "inf"]
PyStr(chars) == [t |-> "str", s |-> chars]
PyList == [t |-> "list"]

Digits == {"0", "1", "2", "3", "4", "5", "6", "7", "8", "9"}

DigitValue(c) ==
    CASE c = "0" -> 0 [] c = "1" -> 1 [] c = "2" -> 2 [] c = "3" -> 3
      [] c = "4" -> 4 [] c = "5" -> 5 [] c = "6" -> 6 [] c = "7" -> 7
      [] c = "8" -> 8 [] c = "9" -> 9

\* mutant: the digits are summed, their place forgotten
RECURSIVE DecimalValue_Sum(_)
DecimalValue_Sum(chars) ==
    IF chars = <<>> THEN 0
    ELSE DecimalValue_Sum(SubSeq(chars, 1, Len(chars) - 1))
            + DigitValue(chars[Len(chars)])

\* the number a run of decimal digits writes
RECURSIVE DecimalValue(_)
DecimalValue(chars) ==
    IF chars = <<>> THEN 0
    ELSE (DecimalValue(SubSeq(chars, 1, Len(chars) - 1)) * 10)
            + DigitValue(chars[Len(chars)])

IsDecimal(chars) == Len(chars) > 0 /\ \A i \in 1..Len(chars) : chars[i] \in Digits

\* int(str): an optional sign and decimal digits, anything else a ValueError
IntOfStr(chars) ==
    IF IsDecimal(chars)
    THEN [ok |-> TRUE, v |-> DecimalValue(chars)]
    ELSE IF Len(chars) > 1 /\ chars[1] \in {"+", "-"} /\ IsDecimal(Tail(chars))
    THEN [ok |-> TRUE,
          v |-> IF chars[1] = "-" THEN 0 - DecimalValue(Tail(chars))
                ELSE DecimalValue(Tail(chars))]
    ELSE [ok |-> FALSE, exc |-> "ValueError"]

\* int(x) of Python: the value, or the exception it raises
int(x) ==
    CASE x.t = "int" -> [ok |-> TRUE, v |-> x.i]
      [] x.t = "float" ->
            [ok |-> TRUE,
             v |-> IF x.milli >= 0 THEN x.milli \div 1000
                   ELSE 0 - ((0 - x.milli) \div 1000)]
      [] x.t = "inf" -> [ok |-> FALSE, exc |-> "OverflowError"]
      [] x.t = "str" -> IntOfStr(x.s)
      [] OTHER -> [ok |-> FALSE, exc |-> "TypeError"]

(***************************************************************************)
(* set_rate_limit_data, get_current_rate_limit (cache.py:309-350)          *)
(***************************************************************************)
\* mutant: an absent value is handed to int() like any other
SafeInt_NoneToInt(x) == int(x)

\* cache.py:319-321: int(x) if x is not None else 0
SafeInt(x) == IF x # PyNone THEN int(x) ELSE [ok |-> TRUE, v |-> 0]

\* dict.update
DictUpdate(d, e) ==
    [k \in (DOMAIN d) \cup (DOMAIN e) |-> IF k \in DOMAIN e THEN e[k] ELSE d[k]]

\* mutant: every value is stored as soon as it is converted
RateLimitDataOutcome_Partial(slot, limit, remaining, reset, current_time) ==
    LET safe_limit == SafeInt(limit)
        safe_remaining == SafeInt(remaining)
        safe_reset == SafeInt(reset)
        with_limit == DictUpdate(slot, [limit |-> PyInt(safe_limit.v)])
        with_remaining ==
            DictUpdate(with_limit, [remaining |-> PyInt(safe_remaining.v)])
    IN  IF ~safe_limit.ok THEN [exc |-> safe_limit.exc, slot |-> slot]
        ELSE IF ~safe_remaining.ok
        THEN [exc |-> safe_remaining.exc, slot |-> with_limit]
        ELSE IF ~safe_reset.ok
        THEN [exc |-> safe_reset.exc, slot |-> with_remaining]
        ELSE [exc |-> "",
              slot |-> DictUpdate(slot,
                          [limit |-> PyInt(safe_limit.v),
                           remaining |-> PyInt(safe_remaining.v),
                           reset |-> PyInt(safe_reset.v),
                           used |-> PyInt(safe_limit.v - safe_remaining.v),
                           timestamp |-> current_time,
                           status |-> "active"])]

\* cache.py:316-338: the exception the try block ends with ("" for none) and
\* the slot it leaves
RateLimitDataOutcome(slot, limit, remaining, reset, current_time) ==
    LET safe_limit == SafeInt(limit)
        safe_remaining == SafeInt(remaining)
        safe_reset == SafeInt(reset)
    IN  IF ~safe_limit.ok THEN [exc |-> safe_limit.exc, slot |-> slot]
        ELSE IF ~safe_remaining.ok THEN [exc |-> safe_remaining.exc, slot |-> slot]
        ELSE IF ~safe_reset.ok THEN [exc |-> safe_reset.exc, slot |-> slot]
        ELSE [exc |-> "",
              slot |-> DictUpdate(slot,
                          [limit |-> PyInt(safe_limit.v),
                           remaining |-> PyInt(safe_remaining.v),
                           reset |-> PyInt(safe_reset.v),
                           used |-> PyInt(safe_limit.v - safe_remaining.v),
                           timestamp |-> current_time,
                           status |-> "active"])]

\* cache.py:337: what the except clause catches
Caught(exc) == exc \in {"ValueError", "TypeError"}

\* mutant: remaining is read from the used field
CurrentRateLimit_Used(slot) ==
    [limit |-> slot["limit"], remaining |-> slot["used"], reset |-> slot["reset"]]

\* cache.py:346-350
CurrentRateLimit(slot) ==
    [limit |-> slot["limit"], remaining |-> slot["remaining"], reset |-> slot["reset"]]

\* the raw header values a caller hands to update
QuotaInputs ==
    { PyNone, PyStr(<<"6", "0">>), PyInt(59), PyStr(<<"a", "b", "c">>), PyInf }

set_rate_limit_data(limit, remaining, reset) ==
    LET out == RateLimitDataOutcome(_rate_limit_cache, limit, remaining, reset, now)
    IN  /\ _rate_limit_cache' = out.slot
        /\ ret' = [op |-> "update", args |-> <<limit, remaining, reset>>,
                   exc |-> out.exc,
                   raised |-> (out.exc # "" /\ ~Caught(out.exc))]
        /\ lastUpdate' = [called |-> TRUE, args |-> <<limit, remaining, reset>>]
        /\ UNCHANGED <<now, _readiness_rate_limit, _readiness_cache, _timeline_cache,
                       readiness_db, timeline_db, pc, frame,
                       limiterHistory, cacheHistory, windowHistory>>

get_current_rate_limit ==
    /\ ret' = [op |-> "read", value |-> CurrentRateLimit(_rate_limit_cache)]
    /\ UNCHANGED <<now, _readiness_rate_limit, _readiness_cache, _timeline_cache,
                   _rate_limit_cache, readiness_db, timeline_db, pc, frame,
                   limiterHistory, cacheHistory,
                   quotaHistory, windowHistory>>

(***************************************************************************)
(* The durable store adapter (database.py, not among the sources): one     *)
(* record per key, with the time it was saved at. A call that fails leaves *)
(* the store as it was; a load that fails finds nothing. The cache code    *)
(* does not look at what save and delete return.                           *)
(***************************************************************************)
load_readiness_from_db(db, pr_id, ok) ==
    IF ok /\ pr_id \in DOMAIN db THEN db[pr_id].data ELSE None

save_readiness_to_db(db, pr_id, data, saved_at, ok) ==
    IF ok THEN DictSet(db, pr_id, [data |-> data, timestamp |-> saved_at]) ELSE db

delete_readiness_from_db(db, pr_id, ok) ==
    IF ok THEN DictDel(db, pr_id) ELSE db

\* (data, timestamp), or (None, None) with the absent timestamp written 0
load_timeline_from_db(db, owner, repo, pr_number, ok) ==
    IF ok /\ <<owner, repo, pr_number>> \in DOMAIN db
    THEN db[<<owner, repo, pr_number>>]
    ELSE [data |-> None, timestamp |-> 0]

save_timeline_to_db(db, owner, repo, pr_number, data, saved_at, ok) ==
    IF ok THEN DictSet(db, <<owner, repo, pr_number>>,
                       [data |-> data, timestamp |-> saved_at])
    ELSE db

delete_timeline_from_db(db, owner, repo, pr_number, ok) ==
    IF ok THEN DictDel(db, <<owner, repo, pr_number>>) ELSE db

(***************************************************************************)
(* What a step of a cache call reports: the call it belongs to, whether    *)
(* the call returned with it, and what it returned.                        *)
(*   seg    "call" for the segment up to the first await, "store" for the  *)
(*          store answering, "resume" for the segment after an await       *)
(*   ok     whether the store call of the step succeeded                   *)
(*   chain  no step of anything else since the call began                  *)
(*   after  the call that returned right before this one began, if any     *)
(*   result what the call hands to its caller when it returns: get its     *)
(*          value; set and invalidate await the store call, drop what it   *)
(*          returns and fall off their end (cache.py:163, 184, 280, 305)   *)
(***************************************************************************)
NoEvent == [op |-> "none"]

CacheOps == {"get", "set", "invalidate"}

\* the last step, if a cache call returned with it undisturbed
Prior ==
    IF ret.op \in CacheOps /\ ret.done /\ ret.chain
    THEN [op |-> ret.op, fam |-> ret.fam, key |-> ret.key, value |-> ret.value,
          ok |-> ret.ok]
    ELSE NoEvent

\* the last step was the previous step of task t's own call
OwnPrevious(t) == ret.op \in CacheOps /\ ~ret.done /\ ret.task = t

Event(op, fam, key, t, seg, done, value, tier, ok, chain, after, called_at) ==
    [op |-> op, fam |-> fam, key |-> key, task |-> t, seg |-> seg, done |-> done,
     value |-> value, tier |-> tier, ok |-> ok, chain |-> chain, after |-> after,
     called_at |-> called_at,
     result |-> IF op = "get" THEN value ELSE None]

\* mutant: whatever the load returned is taken for a record
Truthy_Always(data) == TRUE

\* Python truth of a cached value: None and the empty dict are false
Truthy(data) == data # None /\ data # "{}"

DataValues == {"v1", "v2"}

Suspend(t, label, locals) ==
    /\ pc' = [pc EXCEPT ![t] = label]
    /\ frame' = [frame EXCEPT ![t] = locals]

Return(t) ==
    /\ pc' = [pc EXCEPT ![t] = "idle"]
    /\ frame' = [frame EXCEPT ![t] = NoFrame]

\* history: the store write of the set that wrote `key` last has succeeded
Stored(key, data, at) ==
    IF key \in DOMAIN written /\ written[key].data = data /\ written[key].at = at
    THEN DictSet(written, key, [written[key] EXCEPT !.stored = TRUE])
    ELSE written

(***************************************************************************)
(* Readiness cache (cache.py:91-184)                                       *)
(***************************************************************************)
PRIds == {101}

\* mutant: an entry is still valid at the very end of its TTL
ReadinessFresh_Inclusive(timestamp, current_time) ==
    (current_time - timestamp) <= _READINESS_CACHE_TTL * MsPerSecond

\* cache.py:114
ReadinessFresh(timestamp, current_time) ==
    (current_time - timestamp) < _READINESS_CACHE_TTL * MsPerSecond

\* mutant: set writes the store only
ReadinessEntered_Skipped(cache, pr_id, data, current_time) == cache

\* cache.py:130-133, 156-159
ReadinessEntered(cache, pr_id, data, current_time) ==
    DictSet(cache, pr_id, [data |-> data, timestamp |-> current_time])

\* mutant: invalidate leaves the memory entry
ReadinessDropped_Kept(cache, pr_id) == cache

\* cache.py:120, 179-180
ReadinessDropped(cache, pr_id) == DictDel(cache, pr_id)

\* cache.py:109-123: the memory tier's answer and the map it leaves
ReadinessMemory(cache, pr_id, current_time) ==
    IF pr_id \in DOMAIN cache
    THEN IF ReadinessFresh(cache[pr_id].timestamp, current_time)
         THEN [hit |-> TRUE, data |-> cache[pr_id].data, cache |-> cache]
         ELSE [hit |-> FALSE, data |-> None, cache |-> ReadinessDropped(cache, pr_id)]
    ELSE [hit |-> FALSE, data |-> None, cache |-> cache]

\* cache.py:109-126, up to the await of the load
get_readiness_cache(t, pr_id) ==
    /\ pc[t] = "idle"
    /\ LET m == ReadinessMemory(_readiness_cache, pr_id, now)
       IN  /\ _readiness_cache' = m.cache
           /\ IF m.hit
              THEN /\ UNCHANGED <<pc, frame>>
                   /\ ret' = Event("get", "readiness", pr_id, t, "call", TRUE,
                                   m.data, "memory", TRUE, TRUE, Prior, now)
              ELSE /\ Suspend(t, "get_readiness_load",
                              [pr_id |-> pr_id, db_data |-> None, ok |-> TRUE,
                               chain |-> TRUE, after |-> Prior, called_at |-> now])
                   /\ ret' = Event("get", "readiness", pr_id, t, "call", FALSE,
                                   None, "none", TRUE, TRUE, Prior, now)
    /\ UNCHANGED <<now, _readiness_rate_limit, _timeline_cache, _rate_limit_cache,
                   readiness_db, timeline_db, limiterHistory, cacheHistory,
                   quotaHistory, windowHistory>>

\* cache.py:126: the store answers the load
load_readiness(t, ok) ==
    /\ pc[t] = "get_readiness_load"
    /\ LET f == frame[t]
           chain == f.chain /\ OwnPrevious(t)
       IN  /\ Suspend(t, "get_readiness_loaded",
                      [f EXCEPT !.db_data = load_readiness_from_db(readiness_db, f.pr_id, ok),
                                !.ok = ok, !.chain = chain])
           /\ ret' = Event("get", "readiness", f.pr_id, t, "store", FALSE,
                           None, "none", ok, chain, f.after, f.called_at)
    /\ UNCHANGED <<now, _readiness_rate_limit, _readiness_cache, _timeline_cache,
                   _rate_limit_cache, readiness_db, timeline_db,
                   limiterHistory, cacheHistory,
                   quotaHistory, windowHistory>>

\* cache.py:127-138, after the await of the load
get_readiness_cache_resume(t) ==
    /\ pc[t] = "get_readiness_loaded"
    /\ LET f == frame[t]
           chain == f.chain /\ OwnPrevious(t)
       IN  IF Truthy(f.db_data)
           THEN /\ _readiness_cache' =
                       ReadinessEntered(_readiness_cache, f.pr_id, f.db_data, now)
                /\ ret' = Event("get", "readiness", f.pr_id, t, "resume", TRUE,
                                f.db_data, "store", f.ok, chain, f.after, f.called_at)
           ELSE /\ UNCHANGED _readiness_cache
                /\ ret' = Event("get", "readiness", f.pr_id, t, "resume", TRUE,
                                None, "none", f.ok, chain, f.after, f.called_at)
    /\ Return(t)
    /\ UNCHANGED <<now, _readiness_rate_limit, _timeline_cache, _rate_limit_cache,
                   readiness_db, timeline_db, limiterHistory, cacheHistory,
                   quotaHistory, windowHistory>>

\* cache.py:155-163, up to the await of the save
set_readiness_cache(t, pr_id, data) ==
    /\ pc[t] = "idle"
    /\ _readiness_cache' = ReadinessEntered(_readiness_cache, pr_id, data, now)
    /\ Suspend(t, "set_readiness_save",
               [pr_id |-> pr_id, data |-> data, called_at |-> now])
    /\ ret' = Event("set", "readiness", pr_id, t, "call", FALSE,
                    data, "none", TRUE, TRUE, Prior, now)
    /\ written' = DictSet(written, pr_id,
                          [data |-> data, at |-> now, stored |-> FALSE])
    /\ UNCHANGED <<now, _readiness_rate_limit, _timeline_cache, _rate_limit_cache,
                   readiness_db, timeline_db, limiterHistory, family, request,
                   quotaHistory, windowHistory>>

\* cache.py:163: the store takes the save, or fails, and set returns
set_readiness_cache_resume(t, ok) ==
    /\ pc[t] = "set_readiness_save"
    /\ LET f == frame[t]
       IN  /\ readiness_db' = save_readiness_to_db(readiness_db, f.pr_id, f.data, now, ok)
           /\ ret' = Event("set", "readiness", f.pr_id, t, "resume", TRUE,
                           f.data, "none", ok, OwnPrevious(t), NoEvent, f.called_at)
           /\ written' = IF ok THEN Stored(f.pr_id, f.data, f.called_at) ELSE written
    /\ Return(t)
    /\ UNCHANGED <<now, _readiness_rate_limit, _readiness_cache, _timeline_cache,
                   _rate_limit_cache, timeline_db, limiterHistory, family, request,
                   quotaHistory, windowHistory>>

\* mutant: invalidate empties the timeline map as well
invalidate_readiness_cache_Every(t, pr_id) ==
    /\ pc[t] = "idle"
    /\ _readiness_cache' =
          IF pr_id \in DOMAIN _readiness_cache
          THEN ReadinessDropped(_readiness_cache, pr_id)
          ELSE _readiness_cache
    /\ _timeline_cache' = EmptyDict
    /\ Suspend(t, "invalidate_readiness_delete", [pr_id |-> pr_id, called_at |-> now])
    /\ ret' = Event("invalidate", "readiness", pr_id, t, "call", FALSE,
                    None, "none", TRUE, TRUE, Prior, now)
    /\ written' = DictDel(written, pr_id)
    /\ UNCHANGED <<now, _readiness_rate_limit, _rate_limit_cache,
                   readiness_db, timeline_db, limiterHistory, family, request,
                   quotaHistory, windowHistory>>

\* cache.py:179-184, up to the await of the delete
invalidate_readiness_cache(t, pr_id) ==
    /\ pc[t] = "idle"
    /\ _readiness_cache' =
          IF pr_id \in DOMAIN _readiness_cache
          THEN ReadinessDropped(_readiness_cache, pr_id)
          ELSE _readiness_cache
    /\ Suspend(t, "invalidate_readiness_delete", [pr_id |-> pr_id, called_at |-> now])
    /\ ret' = Event("invalidate", "readiness", pr_id, t, "call", FALSE,
                    None, "none", TRUE, TRUE, Prior, now)
    /\ written' = DictDel(written, pr_id)
    /\ UNCHANGED <<now, _readiness_rate_limit, _timeline_cache, _rate_limit_cache,
                   readiness_db, timeline_db, limiterHistory, family, request,
                   quotaHistory, windowHistory>>

\* cache.py:184: the store takes the delete, or fails, and invalidate returns
invalidate_readiness_cache_resume(t, ok) ==
    /\ pc[t] = "invalidate_readiness_delete"
    /\ LET f == frame[t]
       IN  /\ readiness_db' = delete_readiness_from_db(readiness_db, f.pr_id, ok)
           /\ ret' = Event("invalidate", "readiness", f.pr_id, t, "resume", TRUE,
                           None, "none", ok, OwnPrevious(t), NoEvent, f.called_at)
    /\ Return(t)
    /\ UNCHANGED <<now, _readiness_rate_limit, _readiness_cache, _timeline_cache,
                   _rate_limit_cache, timeline_db, limiterHistory, cacheHistory,
                   quotaHistory, windowHistory>>

(***************************************************************************)
(* Timeline cache (cache.py:187-305)                                       *)
(***************************************************************************)
\* (owner, repo, pr_number) of the pull requests asked for
PRs ==
    { <<"acme", "widgets", 42>>, <<"acme", "widgets", 100>>, <<"a", "b", 7>>,
      <<"o", "r", 0>> }

\* the pull request of the run
Requested == {pr \in PRs : pr = request}

DigitChar(d) ==
    CASE d = 0 -> "0" [] d = 1 -> "1" [] d = 2 -> "2" [] d = 3 -> "3"
      [] d = 4 -> "4" [] d = 5 -> "5" [] d = 6 -> "6" [] d = 7 -> "7"
      [] d = 8 -> "8" [] d = 9 -> "9"

\* f"{n}" of a non-negative int
RECURSIVE Format(_)
Format(n) == IF n < 10 THEN DigitChar(n) ELSE Format(n \div 10) \o DigitChar(n % 10)

\* mutant: the repository is left out of the key
get_timeline_cache_key_NoRepo(owner, repo, pr_number) ==
    owner \o "/" \o Format(pr_number)

\* cache.py:187-189
get_timeline_cache_key(owner, repo, pr_number) ==
    owner \o "/" \o repo \o "/" \o Format(pr_number)

\* mutant: an entry is still valid at the very end of its TTL
TimelineFresh_Inclusive(timestamp, current_time) ==
    (current_time - timestamp) <= _TIMELINE_CACHE_TTL * MsPerSecond

\* cache.py:219, 234
TimelineFresh(timestamp, current_time) ==
    (current_time - timestamp) < _TIMELINE_CACHE_TTL * MsPerSecond

\* cache.py:236-239, 273-276
TimelineEntered(cache, cache_key, data, timestamp) ==
    DictSet(cache, cache_key, [data |-> data, timestamp |-> timestamp])

\* mutant: the promoted entry counts from the time of the get
TimelinePromotedAt_Now(db_timestamp, current_time) == current_time

\* cache.py:238: the promoted entry keeps the store's timestamp
TimelinePromotedAt(db_timestamp, current_time) == db_timestamp

\* cache.py:225, 300-301
TimelineDropped(cache, cache_key) == DictDel(cache, cache_key)

\* cache.py:215-228: the memory tier's answer and the map it leaves
TimelineMemory(cache, cache_key, current_time) ==
    IF cache_key \in DOMAIN cache
    THEN IF TimelineFresh(cache[cache_key].timestamp, current_time)
         THEN [hit |-> TRUE, data |-> cache[cache_key].data, cache |-> cache]
         ELSE [hit |-> FALSE, data |-> None,
               cache |-> TimelineDropped(cache, cache_key)]
    ELSE [hit |-> FALSE, data |-> None, cache |-> cache]

\* cache.py:211-231, up to the await of the load
get_timeline_cache(t, owner, repo, pr_number) ==
    /\ pc[t] = "idle"
    /\ LET cache_key == get_timeline_cache_key(owner, repo, pr_number)
           current_time == now
           m == TimelineMemory(_timeline_cache, cache_key, current_time)
       IN  /\ _timeline_cache' = m.cache
           /\ IF m.hit
              THEN /\ UNCHANGED <<pc, frame>>
                   /\ ret' = Event("get", "timeline", cache_key, t, "call", TRUE,
                                   m.data, "memory", TRUE, TRUE, Prior, now)
              ELSE /\ Suspend(t, "get_timeline_load",
                              [owner |-> owner, repo |-> repo, pr_number |-> pr_number,
                               cache_key |-> cache_key, current_time |-> current_time,
                               db_data |-> None, db_timestamp |-> 0, ok |-> TRUE,
                               chain |-> TRUE, after |-> Prior])
                   /\ ret' = Event("get", "timeline", cache_key, t, "call", FALSE,
                                   None, "none", TRUE, TRUE, Prior, now)
    /\ UNCHANGED <<now, _readiness_rate_limit, _readiness_cache, _rate_limit_cache,
                   readiness_db, timeline_db, limiterHistory, cacheHistory,
                   quotaHistory, windowHistory>>

\* cache.py:231: the store answers the load
load_timeline(t, ok) ==
    /\ pc[t] = "get_timeline_load"
    /\ LET f == frame[t]
           chain == f.chain /\ OwnPrevious(t)
           loaded == load_timeline_from_db(timeline_db, f.owner, f.repo, f.pr_number, ok)
       IN  /\ Suspend(t, "get_timeline_loaded",
                      [f EXCEPT !.db_data = loaded.data,
                                !.db_timestamp = loaded.timestamp,
                                !.ok = ok, !.chain = chain])
           /\ ret' = Event("get", "timeline", f.cache_key, t, "store", FALSE,
                           None, "none", ok, chain, f.after, f.current_time)
    /\ UNCHANGED <<now, _readiness_rate_limit, _readiness_cache, _timeline_cache,
                   _rate_limit_cache, readiness_db, timeline_db,
                   limiterHistory, cacheHistory,
                   quotaHistory, windowHistory>>

\* cache.py:232-251, after the await of the load and up to the await of the
\* delete of an expired record
get_timeline_cache_resume(t) ==
    /\ pc[t] = "get_timeline_loaded"
    /\ LET f == frame[t]
           chain == f.chain /\ OwnPrevious(t)
       IN  IF Truthy(f.db_data) /\ f.db_timestamp # 0
           THEN IF TimelineFresh(f.db_timestamp, f.current_time)
                THEN /\ _timeline_cache' =
                            TimelineEntered(_timeline_cache, f.cache_key, f.db_data,
                                TimelinePromotedAt(f.db_timestamp, f.current_time))
                     /\ ret' = Event("get", "timeline", f.cache_key, t, "resume", TRUE,
                                     f.db_data, "store", f.ok, chain, f.after,
                                     f.current_time)
                     /\ Return(t)
                ELSE /\ UNCHANGED _timeline_cache
                     /\ ret' = Event("get", "timeline", f.cache_key, t, "resume", FALSE,
                                     None, "none", f.ok, chain, f.after, f.current_time)
                     /\ Suspend(t, "get_timeline_delete", [f EXCEPT !.chain = chain])
           ELSE /\ UNCHANGED _timeline_cache
                /\ ret' = Event("get", "timeline", f.cache_key, t, "resume", TRUE,
                                None, "none", f.ok, chain, f.after, f.current_time)
                /\ Return(t)
    /\ UNCHANGED <<now, _readiness_rate_limit, _readiness_cache, _rate_limit_cache,
                   readiness_db, timeline_db, limiterHistory, cacheHistory,
                   quotaHistory, windowHistory>>

\* cache.py:247-251: the store takes the delete of the expired record, or
\* fails, and get returns None
get_timeline_cache_delete_resume(t, ok) ==
    /\ pc[t] = "get_timeline_delete"
    /\ LET f == frame[t]
       IN  /\ timeline_db' =
                 delete_timeline_from_db(timeline_db, f.owner, f.repo, f.pr_number, ok)
           /\ ret' = Event("get", "timeline", f.cache_key, t, "resume", TRUE,
                           None, "none", f.ok /\ ok, f.chain /\ OwnPrevious(t),
                           f.after, f.current_time)
    /\ Return(t)
    /\ UNCHANGED <<now, _readiness_rate_limit, _readiness_cache, _timeline_cache,
                   _rate_limit_cache, readiness_db, limiterHistory, cacheHistory,
                   quotaHistory, windowHistory>>

\* cache.py:269-280, up to the await of the save
set_timeline_cache(t, owner, repo, pr_number, data) ==
    /\ pc[t] = "idle"
    /\ LET cache_key == get_timeline_cache_key(owner, repo, pr_number)
           current_time == now
       IN  /\ _timeline_cache' =
                 TimelineEntered(_timeline_cache, cache_key, data, current_time)
           /\ Suspend(t, "set_timeline_save",
                      [owner |-> owner, repo |-> repo, pr_number |-> pr_number,
                       cache_key |-> cache_key, data |-> data,
                       current_time |-> current_time])
           /\ ret' = Event("set", "timeline", cache_key, t, "call", FALSE,
                           data, "none", TRUE, TRUE, Prior, now)
           /\ written' = DictSet(written, cache_key,
                                 [data |-> data, at |-> current_time, stored |-> FALSE])
    /\ UNCHANGED <<now, _readiness_rate_limit, _readiness_cache, _rate_limit_cache,
                   readiness_db, timeline_db, limiterHistory, family, request,
                   quotaHistory, windowHistory>>

\* cache.py:280: the store takes the save, or fails, and set returns
set_timeline_cache_resume(t, ok) ==
    /\ pc[t] = "set_timeline_save"
    /\ LET f == frame[t]
       IN  /\ timeline_db' =
                 save_timeline_to_db(timeline_db, f.owner, f.repo, f.pr_number,
                                     f.data, now, ok)
           /\ ret' = Event("set", "timeline", f.cache_key, t, "resume", TRUE,
                           f.data, "none", ok, OwnPrevious(t), NoEvent, f.current_time)
           /\ written' = IF ok THEN Stored(f.cache_key, f.data, f.current_time)
                         ELSE written
    /\ Return(t)
    /\ UNCHANGED <<now, _readiness_rate_limit, _readiness_cache, _timeline_cache,
                   _rate_limit_cache, readiness_db, limiterHistory, family, request,
                   quotaHistory, windowHistory>>

\* cache.py:297-305, up to the await of the delete
invalidate_timeline_cache(t, owner, repo, pr_number) ==
    /\ pc[t] = "idle"
    /\ LET cache_key == get_timeline_cache_key(owner, repo, pr_number)
       IN  /\ _timeline_cache' =
                 IF cache_key \in DOMAIN _timeline_cache
                 THEN TimelineDropped(_timeline_cache, cache_key)
                 ELSE _timeline_cache
           /\ Suspend(t, "invalidate_timeline_delete",
                      [owner |-> owner, repo |-> repo, pr_number |-> pr_number,
                       cache_key |-> cache_key, called_at |-> now])
           /\ ret' = Event("invalidate", "timeline", cache_key, t, "call", FALSE,
                           None, "none", TRUE, TRUE, Prior, now)
           /\ written' = DictDel(written, cache_key)
    /\ UNCHANGED <<now, _readiness_rate_limit, _readiness_cache, _rate_limit_cache,
                   readiness_db, timeline_db, limiterHistory, family, request,
                   quotaHistory, windowHistory>>

\* cache.py:305: the store takes the delete, or fails, and invalidate returns
invalidate_timeline_cache_resume(t, ok) ==
    /\ pc[t] = "invalidate_timeline_delete"
    /\ LET f == frame[t]
       IN  /\ timeline_db' =
                 delete_timeline_from_db(timeline_db, f.owner, f.repo, f.pr_number, ok)
           /\ ret' = Event("invalidate", "timeline", f.cache_key, t, "resume", TRUE,
                           None, "none", ok, OwnPrevious(t), NoEvent, f.called_at)
    /\ Return(t)
    /\ UNCHANGED <<now, _readiness_rate_limit, _readiness_cache, _timeline_cache,
                   _rate_limit_cache, readiness_db, limiterHistory, cacheHistory,
                   quotaHistory, windowHistory>>

(***************************************************************************)
(* A new worker isolate: the module's globals start over (cache.py:6-41),  *)
(* the calls in flight are gone, the store stays.                          *)
(***************************************************************************)
Restart ==
    /\ _readiness_rate_limit' = EmptyDict
    /\ _readiness_cache' = EmptyDict
    /\ _timeline_cache' = EmptyDict
    /\ _rate_limit_cache' = [data |-> PyNone, limit |-> PyNone, remaining |-> PyNone,
                             reset |-> PyNone, timestamp |-> 0]
    /\ pc' = [t \in Tasks |-> "idle"]
    /\ frame' = [t \in Tasks |-> NoFrame]
    /\ ret' = [op |-> "restart"]
    /\ lastUpdate' = [called |-> FALSE]
    /\ admitted' = [ip \in IPs |-> EmptyDict]
    /\ UNCHANGED <<now, readiness_db, timeline_db, limiterHistory, cacheHistory>>

(***************************************************************************)
(* The clock.                                                              *)
(***************************************************************************)
Advance(instants) ==
    /\ \E t \in instants : t > now /\ now' = t
    /\ ret' = [op |-> "tick"]
    /\ UNCHANGED <<_readiness_rate_limit, _readiness_cache, _timeline_cache,
                   _rate_limit_cache, readiness_db, timeline_db, pc, frame,
                   limiterHistory, cacheHistory,
                   quotaHistory, windowHistory>>

LimiterTick == Advance(LimiterInstants)

\* clock readings of the quota runs
QuotaInstants == {ClockStart, ClockStart + 500}

QuotaTick == Advance(QuotaInstants)

\* clock readings of the cache runs: half a second before the end of the
\* readiness TTL, its end, and the end of the timeline TTL
CacheInstants ==
    { ClockStart,
      ClockStart + (_READINESS_CACHE_TTL * MsPerSecond) - 500,
      ClockStart + (_READINESS_CACHE_TTL * MsPerSecond),
      ClockStart + (_TIMELINE_CACHE_TTL * MsPerSecond) }

CacheTick == Advance(CacheInstants)

(***************************************************************************)
(* Initial state: the module's globals as cache.py:6-41 leaves them.       *)
(***************************************************************************)
Globals ==
    /\ now = ClockStart
    /\ _readiness_rate_limit = EmptyDict
    /\ _readiness_cache = EmptyDict
    /\ _timeline_cache = EmptyDict
    /\ _rate_limit_cache = [data |-> PyNone, limit |-> PyNone, remaining |-> PyNone,
                            reset |-> PyNone, timestamp |-> 0]
    /\ readiness_db = EmptyDict
    /\ timeline_db = EmptyDict
    /\ pc = [t \in Tasks |-> "idle"]
    /\ frame = [t \in Tasks |-> NoFrame]
    /\ ret = [op |-> "init"]
    /\ calls = [ip \in IPs |-> 0]
    /\ retryAt = [ip \in IPs |-> 0]
    /\ pendingRetryAt = [ip \in IPs |-> 0]
    /\ written = EmptyDict
    /\ lastUpdate = [called |-> FALSE]
    /\ admitted = [ip \in IPs |-> EmptyDict]

Init == Globals /\ family = "readiness" /\ request = <<"acme", "widgets", 42>>

(***************************************************************************)
(* The two-tier cache: the calls of one request at a time on one of the    *)
(* two families, the store answering or failing, the clock, restarts.      *)
(***************************************************************************)
CacheInit ==
    /\ Globals
    /\ \/ family = "readiness" /\ request = <<"acme", "widgets", 42>>
       \/ family = "timeline" /\ request \in PRs

ReadinessStep(t) ==
    \/ \E pr_id \in PRIds : get_readiness_cache(t, pr_id)
    \/ \E ok \in BOOLEAN : load_readiness(t, ok)
    \/ get_readiness_cache_resume(t)
    \/ \E pr_id \in PRIds, data \in DataValues : set_readiness_cache(t, pr_id, data)
    \/ \E ok \in BOOLEAN : set_readiness_cache_resume(t, ok)
    \/ \E pr_id \in PRIds : invalidate_readiness_cache(t, pr_id)
    \/ \E ok \in BOOLEAN : invalidate_readiness_cache_resume(t, ok)

TimelineStep(t) ==
    \/ \E pr \in Requested : get_timeline_cache(t, pr[1], pr[2], pr[3])
    \/ \E ok \in BOOLEAN : load_timeline(t, ok)
    \/ get_timeline_cache_resume(t)
    \/ \E ok \in BOOLEAN : get_timeline_cache_delete_resume(t, ok)
    \/ \E pr \in Requested, data \in DataValues :
          set_timeline_cache(t, pr[1], pr[2], pr[3], data)
    \/ \E ok \in BOOLEAN : set_timeline_cache_resume(t, ok)
    \/ \E pr \in Requested : invalidate_timeline_cache(t, pr[1], pr[2], pr[3])
    \/ \E ok \in BOOLEAN : invalidate_timeline_cache_resume(t, ok)

Next ==
    \/ family = "readiness" /\ ReadinessStep("t1")
    \/ family = "timeline" /\ TimelineStep("t1")
    \/ CacheTick
    \/ Restart

Spec == CacheInit /\ [][Next]_vars

(***************************************************************************)
(* The rate limiter on its own: admit calls and the clock.                 *)
(***************************************************************************)
LimiterNext ==
    \/ \E ip \in IPs : check_rate_limit(ip) /\ UNCHANGED windowHistory
    \/ LimiterTick

SpecLimiter == Init /\ [][LimiterNext]_vars

(***************************************************************************)
(* The rate limiter with the allowed calls of one identity logged.         *)
(***************************************************************************)
WindowIPs == {"ip1"}

WindowNext ==
    \/ \E ip \in WindowIPs : admit(ip)
    \/ LimiterTick

SpecWindow == Init /\ [][WindowNext]_vars

(***************************************************************************)
(* The quota cache on its own: update, read and the clock.                 *)
(***************************************************************************)
QuotaNext ==
    \/ \E limit \in QuotaInputs, remaining \in QuotaInputs, reset \in QuotaInputs :
          set_rate_limit_data(limit, remaining, reset)
    \/ get_current_rate_limit
    \/ QuotaTick

SpecQuota == Init /\ [][QuotaNext]_vars

(***************************************************************************)
(* A warm process: both cache families, the limiter and the quota cache    *)
(* have been used once at the start of the clock, set_readiness_cache(101, *)
(* "v1"), set_timeline_cache("acme", "widgets", 42, "v1"),                 *)
(* check_rate_limit("ip1") and set_rate_limit_data("60", 59, None), and    *)
(* the run then goes on with the calls of one of the four.                 *)
(***************************************************************************)
WarmPR == <<"acme", "widgets", 42>>

WarmKey == get_timeline_cache_key(WarmPR[1], WarmPR[2], WarmPR[3])

Components == {"readiness", "timeline", "limiter", "quota"}

\* the raw header values of the quota updates of a warm run
WarmQuotaInputs == {PyNone, PyInt(59), PyStr(<<"a", "b", "c">>)}

WarmInit ==
    /\ now = ClockStart
    /\ family \in Components
    /\ request = WarmPR
    /\ _readiness_cache = ReadinessEntered(EmptyDict, 101, "v1", ClockStart)
    /\ readiness_db = save_readiness_to_db(EmptyDict, 101, "v1", ClockStart, TRUE)
    /\ _timeline_cache = TimelineEntered(EmptyDict, WarmKey, "v1", ClockStart)
    /\ timeline_db = save_timeline_to_db(EmptyDict, WarmPR[1], WarmPR[2], WarmPR[3],
                                         "v1", ClockStart, TRUE)
    /\ _readiness_rate_limit = RateLimitOutcome(EmptyDict, "ip1", ClockStart).limits
    /\ _rate_limit_cache =
          RateLimitDataOutcome([data |-> PyNone, limit |-> PyNone,
                                remaining |-> PyNone, reset |-> PyNone,
                                timestamp |-> 0],
                               PyStr(<<"6", "0">>), PyInt(59), PyNone, ClockStart).slot
    /\ pc = [t \in Tasks |-> "idle"]
    /\ frame = [t \in Tasks |-> NoFrame]
    /\ ret = [op |-> "init"]
    /\ calls = [ip \in IPs |-> IF ip = "ip1" THEN 1 ELSE 0]
    /\ retryAt = [ip \in IPs |-> 0]
    /\ pendingRetryAt = [ip \in IPs |-> 0]
    /\ written =
          IF family = "readiness"
          THEN DictSet(EmptyDict, 101, [data |-> "v1", at |-> ClockStart, stored |-> TRUE])
          ELSE IF family = "timeline"
          THEN DictSet(EmptyDict, WarmKey,
                       [data |-> "v1", at |-> ClockStart, stored |-> TRUE])
          ELSE EmptyDict
    /\ lastUpdate = [called |-> TRUE, args |-> <<PyStr(<<"6", "0">>), PyInt(59), PyNone>>]
    /\ admitted = [ip \in IPs |-> IF ip = "ip1" THEN Logged(EmptyDict, ClockStart, TRUE)
                                  ELSE EmptyDict]

WarmNext ==
    \/ family = "readiness" /\ ReadinessStep("t1")
    \/ family = "timeline" /\ TimelineStep("t1")
    \/ family = "limiter" /\ \E ip \in WindowIPs : admit(ip)
    \/ /\ family = "quota"
       /\ \E limit \in WarmQuotaInputs, remaining \in WarmQuotaInputs,
             reset \in WarmQuotaInputs :
             set_rate_limit_data(limit, remaining, reset)
    \/ CacheTick

SpecWarm == WarmInit /\ [][WarmNext]_vars

(***************************************************************************)
(* Two requests at once: the calls of two tasks on one key of one family,  *)
(* interleaved at their awaits, the store answering each call when it      *)
(* gets to it.                                                             *)
(***************************************************************************)
\* clock readings of these runs: the start, and the end of the longer TTL
RaceInstants == {ClockStart, ClockStart + (_TIMELINE_CACHE_TTL * MsPerSecond)}

RaceTick == Advance(RaceInstants)

\* a cold process with an empty store; each run is about one family
RaceInit ==
    /\ Globals
    /\ family \in {"readiness", "timeline"}
    /\ request = WarmPR

RaceNext ==
    \/ \E t \in Tasks : family = "readiness" /\ ReadinessStep(t)
    \/ \E t \in Tasks : family = "timeline" /\ TimelineStep(t)
    \/ RaceTick

SpecRace == RaceInit /\ [][RaceNext]_vars

(***************************************************************************)
(* Claims about the two-tier cache, checked under Spec.                    *)
(***************************************************************************)
TTLMs(fam) ==
    IF fam = "readiness" THEN _READINESS_CACHE_TTL * MsPerSecond
    ELSE _TIMELINE_CACHE_TTL * MsPerSecond

\* the memory tier of a family
MemoryOf(fam) == IF fam = "readiness" THEN _readiness_cache ELSE _timeline_cache

\* the record the store holds for the key of a cache step, if any
StoreHolds(fam, key, data) ==
    IF fam = "readiness"
    THEN key \in DOMAIN readiness_db /\ readiness_db[key].data = data
    ELSE \E pr \in PRs :
            /\ get_timeline_cache_key(pr[1], pr[2], pr[3]) = key
            /\ pr \in DOMAIN timeline_db
            /\ timeline_db[pr].data = data

\* a get has just returned
GetReturned == ret.op = "get" /\ ret.done

\* C1 as stated: a value set at t0 (the store write succeeding, no
\* invalidate since) is returned by a get called at t1 when t1 - t0 < TTL,
\* and the get returns absent when t1 - t0 >= TTL, whichever tier serves it
\* (the store calls of the get succeeding).
C1_Original ==
    (GetReturned /\ ret.ok /\ ret.key \in DOMAIN written /\ written[ret.key].stored)
       => LET w == written[ret.key]
              age == ret.called_at - w.at
          IN  /\ age < TTLMs(ret.fam) => ret.value = w.data
              /\ age >= TTLMs(ret.fam) => ret.value = None

\* a get is called right after a set of the same key has returned
GetAfterSet ==
    /\ ret.op = "get" /\ ret.seg = "call"
    /\ ret.after.op = "set"
    /\ ret.after.fam = ret.fam /\ ret.after.key = ret.key

\* C2: set(K, V) followed by get(K), with no time advance and no step of
\* anything else in between, returns V, from the memory tier and without
\* suspending.
C2_SetThenGet ==
    GetAfterSet => (ret.done /\ ret.tier = "memory" /\ ret.value = ret.after.value)

\* the get right after a set whose store write failed returns the value
C2_Witness ==
    /\ GetAfterSet /\ ret.fam = "timeline"
    /\ ~ret.after.ok
    /\ ret.done /\ ret.value = "v2"

\* a get has returned that was called right after an invalidate of the same
\* key had returned, with no step of anything else since
GetAfterInvalidate ==
    /\ GetReturned /\ ret.chain
    /\ ret.after.op = "invalidate"
    /\ ret.after.fam = ret.fam /\ ret.after.key = ret.key

SetReturned == ret.op = "set" /\ ret.done

\* the memory-tier entry of the key of the last step, if any
MemoryEntry == MemoryOf(ret.fam)[ret.key]

\* C12 as stated: set(K, V) writes the memory tier with storedAt = now before
\* it calls the store, and returns only after the store write resolved; when
\* the store write failed, the caller of set is told so (the call does not
\* return what it returns on success) and the entry {V, now} that set wrote
\* is still in the memory tier.
C12_Original ==
    /\ (ret.op = "set" /\ ret.seg = "call")
          => /\ ~ret.done
             /\ ret.key \in DOMAIN MemoryOf(ret.fam)
             /\ MemoryEntry = [data |-> ret.value, timestamp |-> now]
             /\ ~written[ret.key].stored
    /\ SetReturned => ret.seg = "resume"
    /\ (SetReturned /\ ~ret.ok)
          => /\ ret.result # None
             /\ ret.chain =>
                   /\ ret.key \in DOMAIN MemoryOf(ret.fam)
                   /\ MemoryEntry = [data |-> ret.value, timestamp |-> ret.called_at]

\* what does hold of set: the memory write comes first, the call returns
\* after the store call, and a failed store write leaves the entry in place
SetKeepsMemoryEntry ==
    /\ (ret.op = "set" /\ ret.seg = "call")
          => /\ ~ret.done
             /\ ret.key \in DOMAIN MemoryOf(ret.fam)
             /\ MemoryEntry = [data |-> ret.value, timestamp |-> now]
    /\ SetReturned => ret.seg = "resume"
    /\ (SetReturned /\ ~ret.ok /\ ret.chain)
          => /\ ret.key \in DOMAIN MemoryOf(ret.fam)
             /\ MemoryEntry = [data |-> ret.value, timestamp |-> ret.called_at]

\* task t's get has loaded, with no valid memory entry, a record the store
\* holds and that was older than the TTL when the get was called
ExpiredRecordLoaded(t) ==
    \/ /\ pc[t] = "get_readiness_loaded"
       /\ frame[t].ok
       /\ frame[t].pr_id \in DOMAIN readiness_db
       /\ frame[t].db_data = readiness_db[frame[t].pr_id].data
       /\ frame[t].called_at - readiness_db[frame[t].pr_id].timestamp
             >= TTLMs("readiness")
    \/ /\ pc[t] = "get_timeline_loaded"
       /\ frame[t].ok
       /\ <<frame[t].owner, frame[t].repo, frame[t].pr_number>> \in DOMAIN timeline_db
       /\ frame[t].db_data # None
       /\ frame[t].current_time - frame[t].db_timestamp >= TTLMs("timeline")

\* task t's get awaits the delete of the record it found expired
DeleteRequested(t) == pc[t] \in {"get_readiness_delete", "get_timeline_delete"}

\* task t's get takes a step
GetStep(t) == ret'.op = "get" /\ ret'.task = t /\ pc[t] # "idle"

\* C13 as stated, in either family: a get that found no valid memory entry
\* and loaded a record older than the TTL does not promote it (the memory
\* tier stays as it is), requests the record's deletion from the store, and
\* then returns absent whether that deletion succeeded or failed.
C13_Original ==
    [][\A t \in Tasks :
         /\ (ExpiredRecordLoaded(t) /\ GetStep(t))
               => /\ UNCHANGED <<_readiness_cache, _timeline_cache>>
                  /\ ~ret'.done
                  /\ DeleteRequested(t)'
         /\ (DeleteRequested(t) /\ GetStep(t))
               => /\ ret'.done /\ ret'.result = None
                  /\ UNCHANGED <<_readiness_cache, _timeline_cache>>]_vars

\* every entry of the memory tier of a family is a whole one: a cached value
\* and the time it counts from
WellFormed(fam) ==
    \A k \in DOMAIN MemoryOf(fam) :
        /\ MemoryOf(fam)[k].data \in DataValues
        /\ MemoryOf(fam)[k].timestamp \in CacheInstants

ExpectedKey(pr) ==
    CASE pr = <<"acme", "widgets", 42>> -> "acme/widgets/42"
      [] pr = <<"acme", "widgets", 100>> -> "acme/widgets/100"
      [] pr = <<"a", "b", 7>> -> "a/b/7"
      [] pr = <<"o", "r", 0>> -> "o/r/0"

\* C15: the timeline key of (owner, repo, number) is exactly owner "/" repo
\* "/" number, and get, set and invalidate of the timeline family all use
\* it for the memory tier: every step of a timeline call works on that key,
\* no other key ever enters the memory tier, set leaves its entry under it,
\* invalidate leaves none under it, and a memory hit of get returns the
\* entry under it.
C15_KeyDerivation ==
    family = "timeline" =>
       LET k == ExpectedKey(request)
       IN  /\ get_timeline_cache_key(request[1], request[2], request[3]) = k
           /\ ret.op \in CacheOps => ret.key = k
           /\ DOMAIN _timeline_cache \subseteq {k}
           /\ (ret.op = "set" /\ ret.seg = "call")
                 => (k \in DOMAIN _timeline_cache /\ _timeline_cache[k].data = ret.value)
           /\ (ret.op = "invalidate" /\ ret.seg = "call")
                 => k \notin DOMAIN _timeline_cache
           /\ (GetReturned /\ ret.tier = "memory")
                 => (k \in DOMAIN _timeline_cache /\ _timeline_cache[k].data = ret.value)

\* a get of ("acme", "widgets", 100) is a memory hit under "acme/widgets/100"
C15_Witness ==
    /\ family = "timeline" /\ request = <<"acme", "widgets", 100>>
    /\ GetReturned /\ ret.tier = "memory"
    /\ ret.key = "acme/widgets/100"
    /\ "acme/widgets/100" \in DOMAIN _timeline_cache

\* the memory tier of a family after the step
MemoryAfter(fam) == IF fam = "readiness" THEN _readiness_cache' ELSE _timeline_cache'

\* the step is the first segment of a get, up to its return or first await
GetCalled == ret'.op = "get" /\ ret'.seg = "call"

\* C16: a get that finds a memory-tier entry with now - storedAt < TTL
\* returns it at once, with no store call and both tiers unchanged; a get
\* that finds one with now - storedAt >= TTL removes it from the memory tier
\* and only then turns to the store, so it never returns such an entry.
C16_MemoryTierTTL ==
    [][GetCalled =>
         LET fam == ret'.fam
             k == ret'.key
             mem == MemoryOf(fam)
         IN  /\ k \in DOMAIN mem =>
                   IF now - mem[k].timestamp < TTLMs(fam)
                   THEN /\ ret'.done /\ ret'.tier = "memory"
                        /\ ret'.result = mem[k].data
                        /\ UNCHANGED <<_readiness_cache, _timeline_cache,
                                       readiness_db, timeline_db, pc, frame>>
                   ELSE /\ ~ret'.done
                        /\ k \notin DOMAIN MemoryAfter(fam)
                        /\ pc'[ret'.task] \in {"get_readiness_load", "get_timeline_load"}
                        /\ UNCHANGED <<readiness_db, timeline_db>>
             /\ ret'.tier = "memory" =>
                   /\ k \in DOMAIN mem
                   /\ now - mem[k].timestamp < TTLMs(fam)]_vars

\* a readiness entry is returned from memory half a second before its TTL
C16_Witness ==
    /\ GetReturned /\ ret.tier = "memory" /\ ret.fam = "readiness"
    /\ ret.key \in DOMAIN _readiness_cache
    /\ ret.called_at - MemoryEntry.timestamp = TTLMs("readiness") - 500

\* task t's get has loaded, with no valid memory entry, a record that was
\* younger than the TTL when the get was called
FreshRecordLoaded(t) ==
    \/ /\ pc[t] = "get_readiness_loaded"
       /\ frame[t].db_data # None
       /\ frame[t].pr_id \in DOMAIN readiness_db
       /\ frame[t].db_data = readiness_db[frame[t].pr_id].data
       /\ frame[t].called_at - readiness_db[frame[t].pr_id].timestamp
             < TTLMs("readiness")
    \/ /\ pc[t] = "get_timeline_loaded"
       /\ frame[t].db_data # None
       /\ frame[t].current_time - frame[t].db_timestamp < TTLMs("timeline")

\* C17: a get that found no valid memory entry and loaded a record younger
\* than the TTL returns the record's value and leaves it in the memory tier
\* under the key; the entry counts from the time of the promotion in the
\* readiness family and from the store's own timestamp in the timeline
\* family.
C17_Promotion ==
    [][\A t \in Tasks :
         (FreshRecordLoaded(t) /\ GetStep(t))
            => LET fam == ret'.fam
                   k == ret'.key
               IN  /\ ret'.done /\ ret'.tier = "store"
                   /\ ret'.result = frame[t].db_data
                   /\ k \in DOMAIN MemoryAfter(fam)
                   /\ MemoryAfter(fam)[k].data = frame[t].db_data
                   /\ MemoryAfter(fam)[k].timestamp
                         = IF fam = "readiness" THEN now
                           ELSE frame[t].db_timestamp]_vars

\* a timeline record saved earlier has been promoted under the store's
\* timestamp, a readiness record under the time of the promotion
PromotedJustNow ==
    /\ GetReturned /\ ret.tier = "store"
    /\ ret.key \in DOMAIN MemoryOf(ret.fam)
    /\ MemoryEntry.data = ret.value

C17_Witness ==
    /\ PromotedJustNow /\ ret.fam = "timeline"
    /\ MemoryEntry.timestamp < ret.called_at
    /\ \E pr \in Requested : timeline_db[pr].timestamp = MemoryEntry.timestamp

\* the store holds a record for the key of a cache step
StoreHas(fam, key) ==
    IF fam = "readiness" THEN key \in DOMAIN readiness_db
    ELSE \E pr \in PRs :
            /\ get_timeline_cache_key(pr[1], pr[2], pr[3]) = key
            /\ pr \in DOMAIN timeline_db

\* the key is in neither tier
InNeitherTier(fam, key) == key \notin DOMAIN MemoryOf(fam) /\ ~StoreHas(fam, key)

\* C18: every step of a get for a key that is in neither tier leaves the
\* memory-tier maps and the store contents of both families as they were,
\* and the get returns absent.
C18_AbsentNoSideEffect ==
    [][(ret'.op = "get" /\ InNeitherTier(ret'.fam, ret'.key))
          => /\ UNCHANGED <<_readiness_cache, _timeline_cache,
                            readiness_db, timeline_db>>
             /\ ret'.done => (ret'.result = None /\ ret'.tier = "none")]_vars

\* a get has gone to the store for a key that a set had written and an
\* invalidate removed from both tiers, and returned absent
C18_Witness ==
    /\ GetAfterInvalidate /\ ret.after.ok /\ ret.ok
    /\ ret.seg = "resume" /\ ret.result = None
    /\ InNeitherTier(ret.fam, ret.key)
    /\ _readiness_cache = EmptyDict /\ _timeline_cache = EmptyDict
    /\ readiness_db = EmptyDict /\ timeline_db = EmptyDict

\* the timeline get of task t returns, in this step, the value of the
\* record its store read has loaded
TimelineRecordReturned(t) ==
    /\ pc[t] = "get_timeline_loaded" /\ GetStep(t)
    /\ ret'.done /\ ret'.tier = "store"

\* C24 as stated: whenever a timeline get returns a value loaded from the
\* store, at the moment the store read completes the age of the record
\* (the time then minus the record's stored timestamp) is below 1800 s, and
\* the memory entry the get creates is valid at that moment.
C24_Original ==
    [][\A t \in Tasks :
          TimelineRecordReturned(t)
             => /\ now - frame[t].db_timestamp < TTLMs("timeline")
                /\ ret'.key \in DOMAIN _timeline_cache'
                /\ TimelineFresh(_timeline_cache'[ret'.key].timestamp, now)]_vars

(***************************************************************************)
(* Claims about a warm process, checked under SpecWarm.                    *)
(***************************************************************************)
\* the step is one of a get, set or invalidate of the family
StepOf(fam) == ret'.op \in CacheOps /\ ret'.fam = fam /\ ret' # ret

\* C21: the steps of get, set and invalidate of the readiness family leave
\* the timeline memory map, the rate-window map and the quota slot as they
\* were; those of the timeline family leave the readiness memory map as it
\* was; admit and the quota update leave both memory maps as they were.
C21_NoSharedState ==
    [][/\ StepOf("readiness")
             => UNCHANGED <<_timeline_cache, _readiness_rate_limit, _rate_limit_cache>>
       /\ StepOf("timeline") => UNCHANGED _readiness_cache
       /\ (ret'.op \in {"admit", "update"} /\ ret' # ret)
             => UNCHANGED <<_readiness_cache, _timeline_cache>>]_vars

\* the readiness entry has been invalidated, the store's delete has
\* succeeded, and the timeline entry, the rate window and the quota slot
\* of the warm process are still there
C21_Witness ==
    /\ ret.op = "invalidate" /\ ret.fam = "readiness" /\ ret.done /\ ret.ok
    /\ _readiness_cache = EmptyDict /\ readiness_db = EmptyDict
    /\ WarmKey \in DOMAIN _timeline_cache
    /\ "ip1" \in DOMAIN _readiness_rate_limit
    /\ _rate_limit_cache["limit"] = PyInt(60)

(***************************************************************************)
(* Claims about two requests at once, checked under SpecRace.              *)
(***************************************************************************)
\* task t is suspended on the store read of a get, the store has answered
GetLoaded(t) == pc[t] \in {"get_readiness_loaded", "get_timeline_loaded"}

\* every other task has no call in flight
OthersIdle(t) == \A u \in Tasks \ {t} : pc[u] = "idle"

\* the get of task t finishes in this step, right after an invalidate of
\* the same key by another task has run to completion, its store delete
\* succeeding, while the get was suspended on its store read
GetResumesAfterInvalidate(t) ==
    /\ GetLoaded(t) /\ OthersIdle(t)
    /\ ret.op = "invalidate" /\ ret.done /\ ret.ok /\ ret.task # t
    /\ ret'.op = "get" /\ ret'.task = t /\ ret'.done
    /\ ret'.fam = ret.fam /\ ret'.key = ret.key

\* C22 as stated: when a get(K) is suspended on its store read while an
\* invalidate(K) runs to completion with both removals succeeding, then
\* once both have finished the memory tier holds no entry for K (so that a
\* later get(K) misses the memory tier and returns absent).
C22_Original ==
    [][\A t \in Tasks :
          GetResumesAfterInvalidate(t)
             => ret'.key \notin DOMAIN MemoryAfter(ret'.fam)]_vars

\* the get of task t finishes in this step, right after a set of the same
\* key by another task has completed, its store write succeeding and its
\* memory entry still in place, while the get, which had started before the
\* set wrote the memory tier, was suspended on its store read
GetResumesAfterSet(t) ==
    /\ GetLoaded(t) /\ OthersIdle(t)
    /\ ret.op = "set" /\ ret.done /\ ret.ok /\ ret.task # t
    /\ ret.key \in DOMAIN MemoryOf(ret.fam)
    /\ MemoryOf(ret.fam)[ret.key].data = ret.value
    /\ ret'.op = "get" /\ ret'.task = t /\ ret'.done
    /\ ret'.fam = ret.fam /\ ret'.key = ret.key

\* C23 as stated: when set(K, V) completes successfully while a get(K) that
\* started earlier is suspended on its store read, then after both have
\* finished the memory-tier entry for K holds V, the value the store holds
\* (so that later gets within the TTL return V).
C23_Original ==
    [][\A t \in Tasks :
          GetResumesAfterSet(t)
             => /\ ret'.key \in DOMAIN MemoryAfter(ret'.fam)
                /\ MemoryAfter(ret'.fam)[ret'.key].data = ret.value
                /\ StoreHolds(ret.fam, ret.key, ret.value)]_vars

(***************************************************************************)
(* Claims about the rate limiter, checked under SpecLimiter.               *)
(***************************************************************************)
WindowMs == _READINESS_RATE_WINDOW * MsPerSecond

HasWindow(ip) == ip \in DOMAIN _readiness_rate_limit

\* the step just taken was admit(ip)
Admitted(ip) == ret.op = "admit" /\ ret.ip = ip

\* C4 as stated: the first 30 admit calls of a window are allowed with
\* retryAfter 0, and every further call of that window is denied with
\* retryAfter in 1..60.
C4_Original ==
    \A ip \in IPs : Admitted(ip) =>
        /\ calls[ip] <= _READINESS_RATE_LIMIT
              => (ret.allowed /\ ret.retry_after = 0)
        /\ calls[ip] > _READINESS_RATE_LIMIT
              => (~ret.allowed /\ ret.retry_after \in 1.._READINESS_RATE_WINDOW)

\* C4 amended: the first 30 admit calls of a window are allowed with
\* retryAfter 0; every further call of that window is denied with retryAfter
\* in 1..61, and it is 61 exactly when the call is made at the very
\* timestamp the window started at.
C4_FirstThirtyThenDenied ==
    \A ip \in IPs : Admitted(ip) =>
        /\ calls[ip] <= _READINESS_RATE_LIMIT
              => (ret.allowed /\ ret.retry_after = 0)
        /\ calls[ip] > _READINESS_RATE_LIMIT
              => /\ ~ret.allowed
                 /\ ret.retry_after \in 1..(_READINESS_RATE_WINDOW + 1)
                 /\ (ret.retry_after = _READINESS_RATE_WINDOW + 1
                        <=> now = _readiness_rate_limit[ip].window_start)

\* the 31st call of a window, made half a second into it, is denied
C4_Witness ==
    \E ip \in IPs :
        /\ Admitted(ip) /\ ~ret.allowed
        /\ calls[ip] = _READINESS_RATE_LIMIT + 1
        /\ ret.retry_after = _READINESS_RATE_WINDOW
        /\ now - _readiness_rate_limit[ip].window_start = 500

\* C5: an admit made when now - windowStart >= windowSize is allowed with
\* retryAfter 0 and replaces the entry by {count: 1, windowStart: now},
\* whatever the count was.
C5_Rollover ==
    [][\A ip \in IPs :
          (/\ ret'.op = "admit" /\ ret'.ip = ip
           /\ HasWindow(ip)
           /\ now - _readiness_rate_limit[ip].window_start >= WindowMs)
          => /\ ret'.allowed /\ ret'.retry_after = 0
             /\ _readiness_rate_limit'[ip] = [count |-> 1, window_start |-> now]]_vars

\* a window is replaced exactly one window length after it started, after a
\* call of it had been denied (its count was at the limit)
C5_Witness ==
    \E ip \in IPs :
        /\ Admitted(ip) /\ ret.allowed
        /\ retryAt[ip] > now /\ retryAt[ip] <= now + 1000
        /\ now > ClockStart + 500
        /\ _readiness_rate_limit[ip] = [count |-> 1, window_start |-> now]

\* C6 as stated: after a denial at t with retryAfter, the caller's retry, an
\* admit of the same identity at a time >= t + retryAfter, is allowed; and a
\* denial carries retryAfter >= 1.
C6_Original ==
    \A ip \in IPs : Admitted(ip) =>
        /\ ret.overdue => ret.allowed
        /\ ~ret.allowed => ret.retry_after >= 1

\* C6 amended: after a denial at t with retryAfter, an admit of the same
\* identity at a time >= t + retryAfter is allowed provided no admit of that
\* identity was allowed in between; and a denial carries retryAfter >= 1.
C6_RetryAdmitted ==
    \A ip \in IPs : Admitted(ip) =>
        /\ ret.retried => ret.allowed
        /\ ~ret.allowed => ret.retry_after >= 1

\* a denied caller retries after the delay, nobody was admitted meanwhile,
\* and the retry is allowed and opens a window
C6_Witness ==
    \E ip \in IPs :
        /\ Admitted(ip) /\ ret.retried /\ ret.allowed
        /\ calls[ip] = 1
        /\ _readiness_rate_limit[ip].window_start = now

\* C7: admit(a) leaves the entry of every other identity b as it was, so the
\* outcome of admit(b) is the same before and after.
C7_Isolation ==
    [][\A a \in IPs : \A b \in IPs \ {a} :
          (ret'.op = "admit" /\ ret'.ip = a) =>
             /\ (b \in DOMAIN _readiness_rate_limit')
                   <=> (b \in DOMAIN _readiness_rate_limit)
             /\ b \in DOMAIN _readiness_rate_limit
                   => _readiness_rate_limit'[b] = _readiness_rate_limit[b]
             /\ LET before == RateLimitOutcome(_readiness_rate_limit, b, now)
                    after == RateLimitOutcome(_readiness_rate_limit', b, now)
                IN  /\ before.allowed = after.allowed
                    /\ before.retry_after = after.retry_after]_vars

\* one identity is at its limit and was just denied; the other one has been
\* admitted and holds a count of its own
C7_Witness ==
    \E a \in IPs : \E b \in IPs \ {a} :
        /\ Admitted(a) /\ ~ret.allowed
        /\ _readiness_rate_limit[a].count = _READINESS_RATE_LIMIT
        /\ HasWindow(b) /\ _readiness_rate_limit[b].count = 2

\* C8: every window entry has 1 <= count <= limit.
C8_CountWithinLimit ==
    \A ip \in DOMAIN _readiness_rate_limit :
        /\ _readiness_rate_limit[ip].count >= 1
        /\ _readiness_rate_limit[ip].count <= _READINESS_RATE_LIMIT

\* an entry at the limit takes one more call, inside its window, and keeps
\* its count
C8_Witness ==
    \E ip \in IPs :
        /\ Admitted(ip) /\ ~ret.allowed
        /\ calls[ip] > _READINESS_RATE_LIMIT
        /\ now > _readiness_rate_limit[ip].window_start
        /\ _readiness_rate_limit[ip].count = _READINESS_RATE_LIMIT

\* C25: a denied admit changes nothing: whenever admit(id) returns
\* allowed = false, the whole rate-window map, id's own count and
\* windowStart included, is the same after the call as before it, so
\* repeated denied calls neither extend the window nor raise the count.
C25_DeniedChangesNothing ==
    [][(ret'.op = "admit" /\ ~ret'.allowed)
          => UNCHANGED _readiness_rate_limit]_vars

\* an ip has been denied half a second into its window, which still starts
\* where it started and counts the thirty allowed calls, while the other
\* ips have windows of their own
C25_Witness ==
    \E ip \in IPs :
        /\ Admitted(ip) /\ ~ret.allowed
        /\ _readiness_rate_limit[ip] =
              [count |-> _READINESS_RATE_LIMIT, window_start |-> now - 500]
        /\ \A other \in IPs : HasWindow(other)

(***************************************************************************)
(* Claims about the allowed calls of a window, checked under SpecWindow.   *)
(***************************************************************************)
\* the calls of ip allowed at the instants of the set S
AllowedAt(ip, S) == SumOver(admitted[ip], S \cap DOMAIN admitted[ip])

\* the calls of ip allowed since its current window started
AllowedSinceWindowStart(ip) ==
    AllowedAt(ip, {t \in DOMAIN admitted[ip] :
                      t >= _readiness_rate_limit[ip].window_start})

\* C19: admit runs without a suspension point, so in every interleaving of
\* the callers no increment is lost: the entry's count is the number of
\* calls that returned allowed = true since the entry's window_start, and it
\* is at most the limit.
C19_NoLostIncrement ==
    \A ip \in WindowIPs :
        /\ HasWindow(ip)
              => /\ _readiness_rate_limit[ip].count = AllowedSinceWindowStart(ip)
                 /\ AllowedSinceWindowStart(ip) <= _READINESS_RATE_LIMIT
        /\ ~HasWindow(ip) => admitted[ip] = EmptyDict

\* thirty calls were allowed in the window, at two instants, and a further
\* one was denied
C19_Witness ==
    \E ip \in WindowIPs :
        /\ Admitted(ip) /\ ~ret.allowed
        /\ _readiness_rate_limit[ip].count = _READINESS_RATE_LIMIT
        /\ AllowedSinceWindowStart(ip) = _READINESS_RATE_LIMIT
        /\ \E t \in DOMAIN admitted[ip] :
              t > _readiness_rate_limit[ip].window_start /\ admitted[ip][t] > 1

\* C20 as stated: in every span of 60 seconds at most 30 admit calls of one
\* ip return allowed = true.
C20_Original ==
    \A ip \in WindowIPs :
        AllowedAt(ip, {t \in DOMAIN admitted[ip] : now - t < WindowMs})
           <= _READINESS_RATE_LIMIT

(***************************************************************************)
(* Claims about the quota cache, checked under SpecQuota.                  *)
(***************************************************************************)
SixtyStr == PyStr(<<"6", "0">>)

\* the inputs that are absent or write an integer, and the integer meant
IntegerValued == {PyNone, SixtyStr, PyInt(59)}

Meant(x) == CASE x = PyNone -> 0 [] x = SixtyStr -> 60 [] x = PyInt(59) -> 59

\* a header value that is no number
NonNumeric == {PyStr(<<"a", "b", "c">>)}

\* what coercion with a default of zero would give
Coerced(x) == IF x \in IntegerValued THEN Meant(x) ELSE 0

\* C9: update with integer-valued strings or numbers (or None, read as 0)
\* does not raise, and a read after it returns exactly those three integers.
C9_QuotaRoundTrip ==
    /\ (ret.op = "update" /\ \A i \in 1..3 : ret.args[i] \in IntegerValued)
          => /\ ~ret.raised /\ ret.exc = ""
             /\ CurrentRateLimit(_rate_limit_cache)
                   = [limit |-> PyInt(Meant(ret.args[1])),
                      remaining |-> PyInt(Meant(ret.args[2])),
                      reset |-> PyInt(Meant(ret.args[3]))]
    /\ ret.op = "read"
          => /\ ret.value.limit = _rate_limit_cache["limit"]
             /\ ret.value.remaining = _rate_limit_cache["remaining"]
             /\ ret.value.reset = _rate_limit_cache["reset"]

\* update("60", 59, None) has been stored
C9_Witness ==
    /\ ret.op = "update"
    /\ ret.args = <<SixtyStr, PyInt(59), PyNone>>
    /\ _rate_limit_cache["limit"] = PyInt(60)
    /\ _rate_limit_cache["reset"] = PyInt(0)

\* C10 as stated, for non-numeric strings: with a value that is present but
\* not parsable as an integer, update does not raise, takes that value as
\* zero and stores a new slot: the other fields coerced, used = limit -
\* remaining, a new capturedAt and status "active".
C10_Original ==
    (/\ ret.op = "update"
     /\ \E i \in 1..3 : ret.args[i] \in NonNumeric
     /\ \A i \in 1..3 : ret.args[i] \in IntegerValued \cup NonNumeric)
       => /\ ~ret.raised
          /\ _rate_limit_cache
                = DictUpdate(_rate_limit_cache,
                     [limit |-> PyInt(Coerced(ret.args[1])),
                      remaining |-> PyInt(Coerced(ret.args[2])),
                      reset |-> PyInt(Coerced(ret.args[3])),
                      used |-> PyInt(Coerced(ret.args[1]) - Coerced(ret.args[2])),
                      timestamp |-> now,
                      status |-> "active"])

\* the slot the spec's defaults describe
ZeroDefaults == [limit |-> PyInt(0), remaining |-> PyInt(0), reset |-> PyInt(0)]

\* C11 as stated: a read returns the limit, remaining and reset of the most
\* recent update (as integers, a value that is no number taken as zero),
\* however long ago it was, and the all-zero defaults when update has never
\* been called.
C11_Original ==
    ret.op = "read"
       => IF ~lastUpdate.called THEN ret.value = ZeroDefaults
          ELSE (\A i \in 1..3 : lastUpdate.args[i] \in IntegerValued \cup NonNumeric)
                  => ret.value = [limit |-> PyInt(Coerced(lastUpdate.args[1])),
                                  remaining |-> PyInt(Coerced(lastUpdate.args[2])),
                                  reset |-> PyInt(Coerced(lastUpdate.args[3]))]

\* C26: the quota update is all-or-nothing: when the conversion of any of
\* limit, remaining or reset fails inside update, no field of the quota slot
\* is changed, and what a read returns stays what it was, a read returning
\* the slot's values and changing nothing: the values of the last successful
\* update.
C26_AllOrNothing ==
    [][/\ (ret'.op = "update" /\ ret'.exc # "")
             => /\ UNCHANGED _rate_limit_cache
                /\ CurrentRateLimit(_rate_limit_cache)' = CurrentRateLimit(_rate_limit_cache)
       /\ ret'.op = "read"
             => /\ UNCHANGED _rate_limit_cache
                /\ ret'.value = CurrentRateLimit(_rate_limit_cache)]_vars

\* update("60", "abc", None) has failed on its second value after an update
\* that stored the limit 59 at an earlier time, and the slot still holds 59
C26_Witness ==
    /\ ret.op = "update" /\ ret.exc = "ValueError"
    /\ ret.args = <<SixtyStr, PyStr(<<"a", "b", "c">>), PyNone>>
    /\ _rate_limit_cache["limit"] = PyInt(59)
    /\ _rate_limit_cache["timestamp"] # now

====
